---------------------------- MODULE Spec2Model ----------------------------
(***************************************************************************)
(* A model of rcli's two core components:                                  *)
(*   - Storage (src/src/storage/storage.rs): one pretty-printed JSON file  *)
(*     per key in a flat data directory;                                   *)
(*   - HttpClient (src/src/http.rs): GET with retry and linear backoff,    *)
(*     and POST without retry.                                             *)
(*                                                                         *)
(* Spec runs the Storage calls one after another; SpecLimit adds the       *)
(* limits whose byte count passes 2^64, SpecFaults files cut short and     *)
(* failing fs::metadata, SpecRace two store calls side by side.  SpecFetch *)
(* is one fetch_json call, SpecHttp one fetch_json or post_json call.      *)
(*                                                                         *)
(* Text (file contents) is a sequence of chunks [lit, rep]: the string lit *)
(* repeated rep times.  Its byte length is the sum of Len(lit) * rep, so a *)
(* megabyte-long string value is one chunk.  Keys and file names are       *)
(* sequences of one-character strings, so that sanitization, the file      *)
(* extension and the lexicographic order are computed character by         *)
(* character.                                                              *)
(***************************************************************************)
EXTENDS Integers, Sequences, FiniteSets, TLC

VARIABLES
    files,              \* data_dir: file name -> file content (Text)
    max_file_size_mb,   \* Storage.max_file_size_mb, a u64 in two parts
    overflow_checks,    \* whether the build panics on integer overflow (debug) or
                        \* wraps (release)
    procs,              \* the store calls that run side by side: where each one is
    uuids,              \* how many ids Uuid::new_v4 has handed out
    last,               \* the last Storage call: its arguments and what it returned
    nops,               \* number of Storage calls made so far
    hist,               \* per key: what the stores since the last delete of that key returned
    fhist,              \* per key: the same, since the last delete of a key with its file
    base_url,           \* HttpClient.base_url
    retry_attempts,     \* HttpClient.retry_attempts
    pc,                 \* where fetch_json or post_json is: "idle", "loop", "sleep",
                        \* "post" or "done"
    full_url,           \* fetch_json's full_url
    attempt,            \* fetch_json's loop variable
    trace,              \* the requests sent and the sleeps taken, in order
    result              \* what fetch_json or post_json returned

svars == <<files, max_file_size_mb, overflow_checks, procs, uuids, last, nops, hist, fhist>>
hvars == <<base_url, retry_attempts, pc, full_url, attempt, trace, result>>
vars == <<files, max_file_size_mb, overflow_checks, procs, uuids, last, nops, hist, fhist,
          base_url, retry_attempts, pc, full_url, attempt, trace, result>>

----------------------------------------------------------------------------
(* Bounds and input sets *)

MaxOps == 3          \* Storage calls per behaviour
MaxRetry == 3        \* retry_attempts is drawn from 0..MaxRetry

MiB == 1048576       \* 1024 * 1024, storage.rs:73

\* What Utc::now() may read (seconds of the epoch).  The wall clock is not monotonic:
\* a later call may read an earlier second.
Times == {0, 1}

\* A u64 as hi * 2^44 + lo, hi < 2^20.  The model keeps lo below 2^11, so that
\* lo * 1024 * 1024 is below 2^31 and carries nothing into hi.
U64(hi, lo) == [hi |-> hi, lo |-> lo]

\* The configured max_file_size_mb: 0, 1 and 2
Megabytes == { U64(0, 0), U64(0, 1), U64(0, 2) }

\* And from where its product with 1024 * 1024 passes 2^64: 2^44, 2^44 + 1 and 2^54
LargeMegabytes == { U64(1, 0), U64(1, 1), U64(1024, 0) }

\* The ids Uuid::new_v4 hands out, in the order it does; one per call at most
Uuids == 1..MaxOps

\* The keys the callers use.  "a/" and "a_" share a file; "" has the file ".json".
Keys == { <<>>, <<"b">>, <<"a", "/">>, <<"a", "_">> }

\* serde_json::Value: a number, an object {"x": n}, a string of len 'x' characters
VNum(n) == [type |-> "Number", n |-> n, len |-> 0]
VObj(n) == [type |-> "Object", n |-> n, len |-> 0]
VStr(len) == [type |-> "String", n |-> 0, len |-> len]

\* The values the callers store: {"x":1} and a string of one MiB of 'x', which a
\* store of 1 MB does not admit and a store of 2 MB does
Values == { VObj(1), VStr(MiB) }

----------------------------------------------------------------------------
(* Characters and strings *)

\* The byte of each character in use (ASCII)
Code(c) ==
    CASE c = "\"" -> 34
      [] c = "*"  -> 42
      [] c = "."  -> 46
      [] c = "/"  -> 47
      [] c = ":"  -> 58
      [] c = "<"  -> 60
      [] c = ">"  -> 62
      [] c = "?"  -> 63
      [] c = "\\" -> 92
      [] c = "_"  -> 95
      [] c = "a"  -> 97
      [] c = "b"  -> 98
      [] c = "j"  -> 106
      [] c = "n"  -> 110
      [] c = "o"  -> 111
      [] c = "s"  -> 115
      [] c = "|"  -> 124

\* String's Ord: byte-wise lexicographic, a proper prefix first
RECURSIVE StrLess(_, _)
StrLess(s, t) ==
    IF t = <<>> THEN FALSE
    ELSE IF s = <<>> THEN TRUE
    ELSE IF Code(Head(s)) # Code(Head(t)) THEN Code(Head(s)) < Code(Head(t))
    ELSE StrLess(Tail(s), Tail(t))

\* Insert x into the sorted sequence q
RECURSIVE Insert(_, _)
Insert(x, q) ==
    IF q = <<>> THEN <<x>>
    ELSE IF StrLess(Head(q), x) THEN <<Head(q)>> \o Insert(x, Tail(q))
    ELSE <<x>> \o q

\* Vec<String>::sort
RECURSIVE Sort(_)
Sort(q) == IF q = <<>> THEN <<>> ELSE Insert(Head(q), Sort(Tail(q)))

----------------------------------------------------------------------------
(* Text and JSON *)

Lit(s) == [lit |-> s, rep |-> 1]

\* str::len of a text: its bytes
RECURSIVE ByteLen(_)
ByteLen(text) ==
    IF text = <<>> THEN 0
    ELSE Len(Head(text).lit) * Head(text).rep + ByteLen(Tail(text))

\* serde_json's string escaping: a quote and a backslash get a backslash
RECURSIVE Escape(_)
Escape(s) ==
    IF s = <<>> THEN ""
    ELSE (IF Head(s) \in {"\"", "\\"} THEN "\\" \o Head(s) ELSE Head(s))
         \o Escape(Tail(s))

JsonString(s) == "\"" \o Escape(s) \o "\""

\* Uuid's Display: 36 characters; the n-th id handed out
UuidString(n) ==
    "00000000-0000-4000-8000-0000000000" \o (IF n < 10 THEN "0" ELSE "") \o ToString(n)

\* DateTime<Utc>'s serialization (RFC 3339) of second t of the epoch
Rfc3339(t) ==
    "1970-01-01T00:00:" \o (IF t < 10 THEN "0" ELSE "") \o ToString(t) \o "Z"

\* A Value pretty-printed at indent level 1
ValueText(v) ==
    CASE v.type = "Number" -> << Lit(ToString(v.n)) >>
      [] v.type = "Object" -> << Lit("{\n    \"x\": " \o ToString(v.n) \o "\n  }") >>
      [] v.type = "String" -> << Lit("\""), [lit |-> "x", rep |-> v.len], Lit("\"") >>

\* The field names and punctuation of a pretty-printed StoredItem (metadata is
\* always empty)
IdField == Lit("{\n  \"id\": ")
KeyField == Lit(",\n  \"key\": ")
ValueField == Lit(",\n  \"value\": ")
CreatedAtField == Lit(",\n  \"created_at\": ")
UpdatedAtField == Lit(",\n  \"updated_at\": ")
MetadataField == Lit(",\n  \"metadata\": {}\n}")

\* The printed fields, once for all
IdText == [i \in Uuids |-> Lit("\"" \o UuidString(i) \o "\"")]
KeyText == [k \in Keys |-> Lit(JsonString(k))]
TimeText == [t \in Times |-> Lit("\"" \o Rfc3339(t) \o "\"")]

\* The length of the string value with which the record of key "b" is one MiB long
\* to the byte
EdgeLen ==
    MiB - ByteLen(<< IdField, IdText[1], KeyField, KeyText[<<"b">>], ValueField,
                     Lit("\"\""), CreatedAtField, TimeText[0], UpdatedAtField,
                     TimeText[0], MetadataField >>)

\* The values stored where the size check is looked at: with the string of EdgeLen
\* characters the record of "" is one byte short of a MiB, that of "b" is a MiB,
\* and those of "a/" and "a_" are one byte over
LimitValues == { VObj(1), VStr(EdgeLen) }

PrettyValue == [v \in Values \cup LimitValues |-> ValueText(v)]

\* serde_json::to_string_pretty(&StoredItem)
to_string_pretty(item) ==
    << IdField, IdText[item.id], KeyField, KeyText[item.key], ValueField >>
    \o PrettyValue[item.value] \o
    << CreatedAtField, TimeText[item.created_at],
       UpdatedAtField, TimeText[item.updated_at], MetadataField >>

\* What from_str yields for a text that is no StoredItem (a serde_json::Error)
ParseError == [id |-> 0, key |-> <<>>, value |-> VNum(0), created_at |-> 0,
               updated_at |-> 0, metadata |-> <<"error">>]

\* The x whose printed form is tok: parsing a field is the inverse of printing it
Decodings(table, tok) == { x \in DOMAIN table : table[x] = tok }

\* serde_json::from_str::<StoredItem>: the fields are read back from where the
\* serializer puts them; anything else is a parse error
from_str(text) ==
    LET n == Len(text) IN
    IF n < 11 THEN ParseError
    ELSE
      LET id == Decodings(IdText, text[2])
          key == Decodings(KeyText, text[4])
          value == Decodings(PrettyValue, SubSeq(text, 6, n - 5))
          created_at == Decodings(TimeText, text[n - 3])
          updated_at == Decodings(TimeText, text[n - 1])
      IN  IF \/ id = {} \/ key = {} \/ value = {}
             \/ created_at = {} \/ updated_at = {}
             \/ text[1] # IdField
             \/ text[3] # KeyField
             \/ text[5] # ValueField
             \/ text[n - 4] # CreatedAtField
             \/ text[n - 2] # UpdatedAtField
             \/ text[n] # MetadataField
          THEN ParseError
          ELSE [id |-> CHOOSE x \in id : TRUE,
                key |-> CHOOSE x \in key : TRUE,
                value |-> CHOOSE x \in value : TRUE,
                created_at |-> CHOOSE x \in created_at : TRUE,
                updated_at |-> CHOOSE x \in updated_at : TRUE,
                metadata |-> <<>>]

----------------------------------------------------------------------------
(* Results *)

Ok(v) == [tag |-> "Ok", val |-> v]
Err(kind) == [tag |-> kind, val |-> <<>>]

----------------------------------------------------------------------------
(* StoredItem *)

\* StoredItem::new; now is what Utc::now() reads, id what Uuid::new_v4() yields
StoredItem_new(key, value, now, id) ==
    [id |-> id, key |-> key, value |-> value,
     created_at |-> now, updated_at |-> now, metadata |-> <<>>]

\* update_value with the new value dropped
update_value_keeps_value(item, value, now) ==
    [item EXCEPT !.updated_at = now]

\* StoredItem::update_value
update_value(item, value, now) ==
    [item EXCEPT !.value = value, !.updated_at = now]

----------------------------------------------------------------------------
(* Storage *)

Forbidden == {"/", "\\", ":", "*", "?", "\"", "<", ">", "|"}

\* str::replace of every forbidden character by '_'
RECURSIVE Sanitize(_)
Sanitize(key) ==
    IF key = <<>> THEN <<>>
    ELSE <<IF Head(key) \in Forbidden THEN "_" ELSE Head(key)>> \o Sanitize(Tail(key))

\* get_file_path with the key taken as it is
get_file_path_raw(key) == key \o <<".", "j", "s", "o", "n">>

\* Storage::get_file_path: the file's name inside data_dir
get_file_path(key) == Sanitize(key) \o <<".", "j", "s", "o", "n">>

\* The place of the last '.' of name, 0 when it has none
LastDot(name) ==
    IF \E i \in 1..Len(name) : name[i] = "."
    THEN CHOOSE i \in 1..Len(name) :
            name[i] = "." /\ \A j \in (i + 1)..Len(name) : name[j] # "."
    ELSE 0

\* Path::extension: nothing for "..", for a name with no '.', and for a name whose
\* only '.' is its first character; else what follows the last '.'
HasExtension(name) == name # <<".", ".">> /\ LastDot(name) > 1
Extension(name) == SubSeq(name, LastDot(name) + 1, Len(name))

\* Path::file_stem: the name without its extension
FileStem(name) ==
    IF HasExtension(name) THEN SubSeq(name, 1, LastDot(name) - 1) ELSE name

\* get that looks for the file under the key as it is
get_unsanitized(key) ==
    LET file_path == key \o <<".", "j", "s", "o", "n">> IN
    IF file_path \notin DOMAIN files THEN Err("NotFound")
    ELSE LET item == from_str(files[file_path]) IN
         IF item = ParseError THEN Err("Json") ELSE Ok(item)

\* Storage::get
get(key) ==
    LET file_path == get_file_path(key) IN
    IF file_path \notin DOMAIN files THEN Err("NotFound")
    ELSE LET item == from_str(files[file_path]) IN
         IF item = ParseError THEN Err("Json") ELSE Ok(item)

\* Storage::exists
exists(key) == get_file_path(key) \in DOMAIN files

\* u64 * 1024 modulo 2^64, and whether the product passes 2^64
wrapping_mul_1024(u) == U64((u.hi % 1024) * 1024, u.lo * 1024)
overflows_mul_1024(u) == u.hi >= 1024

\* The byte limit of Storage::store as the release build computes it:
\* (self.max_file_size_mb * 1024 * 1024) as usize
SizeLimit == wrapping_mul_1024(wrapping_mul_1024(max_file_size_mb))

\* Whether one of the two multiplications overflows, on which the debug build panics
LimitOverflows ==
    \/ overflows_mul_1024(max_file_size_mb)
    \/ overflows_mul_1024(wrapping_mul_1024(max_file_size_mb))

\* The comparison that lets one byte more through
Exceeds_with_slack(len, limit) == limit.hi = 0 /\ len > limit.lo + 1

\* json_data.len() > limit, for a length below 2^31
Exceeds(len, limit) == limit.hi = 0 /\ len > limit.lo

\* What store returns when it does not write: the panic of an overflowing
\* multiplication, or the Validation error
Refused == IF overflow_checks /\ LimitOverflows THEN Err("Panic") ELSE Err("Validation")

\* Whether store stops at the size check
TooLong(json_data) ==
    \/ overflow_checks /\ LimitOverflows
    \/ Exceeds(ByteLen(json_data), SizeLimit)

\* store without the read of the existing record: a new item on every call
store_always_new(key, value, now, id) ==
    LET file_path == get_file_path(key)
        item == StoredItem_new(key, value, now, id)
        json_data == to_string_pretty(item)
    IN  IF TooLong(json_data)
        THEN [ret |-> Err("Validation"), files |-> files]
        ELSE [ret |-> Ok(item),
              files |-> [f \in DOMAIN files \cup {file_path} |->
                           IF f = file_path THEN json_data ELSE files[f]]]

\* store with the file written before the size is checked
store_writes_first(key, value, now, id) ==
    LET file_path == get_file_path(key)
        existing == get(key)
    IN  IF file_path \in DOMAIN files /\ existing.tag # "Ok"
        THEN [ret |-> existing, files |-> files]
        ELSE
          LET item == IF file_path \in DOMAIN files
                      THEN update_value(existing.val, value, now)
                      ELSE StoredItem_new(key, value, now, id)
              json_data == to_string_pretty(item)
              written == [f \in DOMAIN files \cup {file_path} |->
                            IF f = file_path THEN json_data ELSE files[f]]
          IN  IF TooLong(json_data)
              THEN [ret |-> Err("Validation"), files |-> written]
              ELSE [ret |-> Ok(item), files |-> written]

\* store that writes the caller's key into the record it updates
store_rekeys(key, value, now, id) ==
    LET file_path == get_file_path(key)
        existing == get(key)
    IN  IF file_path \in DOMAIN files /\ existing.tag # "Ok"
        THEN [ret |-> existing, files |-> files]
        ELSE
          LET item == IF file_path \in DOMAIN files
                      THEN [update_value(existing.val, value, now) EXCEPT !.key = key]
                      ELSE StoredItem_new(key, value, now, id)
              json_data == to_string_pretty(item)
          IN  IF TooLong(json_data)
              THEN [ret |-> Err("Validation"), files |-> files]
              ELSE [ret |-> Ok(item),
                    files |-> [f \in DOMAIN files \cup {file_path} |->
                                 IF f = file_path THEN json_data ELSE files[f]]]

\* Storage::store: what it returns and the directory it leaves.  now is the reading
\* of Utc::now(), id the value of Uuid::new_v4() should a new item be made
store(key, value, now, id) ==
    LET file_path == get_file_path(key)
        existing == get(key)
    IN  IF file_path \in DOMAIN files /\ existing.tag # "Ok"
        THEN [ret |-> existing, files |-> files]
        ELSE
          LET item == IF file_path \in DOMAIN files
                      THEN update_value(existing.val, value, now)
                      ELSE StoredItem_new(key, value, now, id)
              json_data == to_string_pretty(item)
          IN  IF TooLong(json_data)
              THEN [ret |-> Refused, files |-> files]
              ELSE [ret |-> Ok(item),
                    files |-> [f \in DOMAIN files \cup {file_path} |->
                                 IF f = file_path THEN json_data ELSE files[f]]]

\* delete without the remove_file
delete_keeps_file(key) ==
    LET file_path == get_file_path(key) IN
    IF file_path \notin DOMAIN files
    THEN [ret |-> Err("NotFound"), files |-> files]
    ELSE [ret |-> Ok(<<>>), files |-> files]

\* delete that empties the directory
delete_clears_directory(key) ==
    LET file_path == get_file_path(key) IN
    IF file_path \notin DOMAIN files
    THEN [ret |-> Err("NotFound"), files |-> files]
    ELSE [ret |-> Ok(<<>>), files |-> <<>>]

\* Storage::delete: what it returns and the directory it leaves
delete(key) ==
    LET file_path == get_file_path(key) IN
    IF file_path \notin DOMAIN files
    THEN [ret |-> Err("NotFound"), files |-> files]
    ELSE [ret |-> Ok(<<>>), files |-> [f \in DOMAIN files \ {file_path} |-> files[f]]]

\* The keys Storage::list pushes for the directory entries in the order read_dir
\* yields them
RECURSIVE ListedKeys(_)
ListedKeys(entries) ==
    IF entries = <<>> THEN <<>>
    ELSE (IF HasExtension(Head(entries)) /\ Extension(Head(entries)) = <<"j", "s", "o", "n">>
          THEN <<FileStem(Head(entries))>> ELSE <<>>)
         \o ListedKeys(Tail(entries))

\* Storage::list
list(entries) == Ok(Sort(ListedKeys(entries)))

\* The orders in which read_dir may yield the directory's entries
ReadDir ==
    { e \in [1..Cardinality(DOMAIN files) -> DOMAIN files] :
        \A i, j \in DOMAIN e : i # j => e[i] # e[j] }

\* Storage::get_storage_info
RECURSIVE get_storage_info(_)
get_storage_info(entries) ==
    IF entries = <<>> THEN [file_count |-> 0, total_size_bytes |-> 0]
    ELSE LET rest == get_storage_info(Tail(entries))
             path == Head(entries)
         IN  IF HasExtension(path) /\ Extension(path) = <<"j", "s", "o", "n">>
             THEN [file_count |-> rest.file_count + 1,
                   total_size_bytes |-> rest.total_size_bytes + ByteLen(files[path])]
             ELSE rest

\* Storage::get_storage_info when fs::metadata fails on the files of unreadable:
\* `if let Ok(metadata)` passes them over
RECURSIVE get_storage_info_failing(_, _)
get_storage_info_failing(entries, unreadable) ==
    IF entries = <<>> THEN [file_count |-> 0, total_size_bytes |-> 0]
    ELSE LET rest == get_storage_info_failing(Tail(entries), unreadable)
             path == Head(entries)
         IN  IF /\ HasExtension(path) /\ Extension(path) = <<"j", "s", "o", "n">>
                /\ path \notin unreadable
             THEN [file_count |-> rest.file_count + 1,
                   total_size_bytes |-> rest.total_size_bytes + ByteLen(files[path])]
             ELSE rest

\* What handle_list prints for one key: the key alone, the key with the times of
\* its record, or the key with "(error reading metadata)"
Line(key, detailed) ==
    [key |-> key,
     shown |-> IF ~detailed THEN "key"
               ELSE IF get(key).tag = "Ok" THEN "times" ELSE "error reading metadata"]

\* main.rs handle_list: what it returns to run, with the lines it printed
handle_list(detailed, entries, unreadable) ==
    LET keys == list(entries).val
        storage_info == get_storage_info_failing(entries, unreadable)
    IN  Ok([i \in DOMAIN keys |-> Line(keys[i], detailed)])

\* The status the process ends with: main exits with 1 when run returns an error
ExitStatus(ret) == IF ret.tag = "Ok" THEN 0 ELSE 1

\* A file that was cut short (a crash or a full disk in the middle of a write)
Truncated == << Lit("{") >>

----------------------------------------------------------------------------
(* HttpClient *)

\* The configured base_url: "http://h", "http://h/" and "http://h//"
BaseUrls == { <<"h", "t", "t", "p", ":", "/", "/", "h">>,
              <<"h", "t", "t", "p", ":", "/", "/", "h", "/">>,
              <<"h", "t", "t", "p", ":", "/", "/", "h", "/", "/">> }

\* The urls the callers fetch and post to: "p", "/p", "//p/", "", "http://o" and
\* "httpx", which begins with "http" and names no scheme
Urls == { <<"p">>, <<"/", "p">>, <<"/", "/", "p", "/">>, <<>>,
          <<"h", "t", "t", "p", ":", "/", "/", "o">>,
          <<"h", "t", "t", "p", "x">> }

\* str::starts_with
starts_with(s, prefix) ==
    Len(s) >= Len(prefix) /\ SubSeq(s, 1, Len(prefix)) = prefix

\* str::trim_end_matches(c)
RECURSIVE trim_end_matches(_, _)
trim_end_matches(s, c) ==
    IF s # <<>> /\ s[Len(s)] = c THEN trim_end_matches(SubSeq(s, 1, Len(s) - 1), c)
    ELSE s

\* str::trim_start_matches(c)
RECURSIVE trim_start_matches(_, _)
trim_start_matches(s, c) ==
    IF s # <<>> /\ Head(s) = c THEN trim_start_matches(Tail(s), c) ELSE s

\* The full_url of fetch_json
FullUrl(base, url) ==
    IF starts_with(url, <<"h", "t", "t", "p">>) THEN url
    ELSE trim_end_matches(base, "/") \o <<"/">> \o trim_start_matches(url, "/")

\* What a body is when reading it fails
Unreadable == "<body read error>"

\* What client.get(url).send() may come to: a transport error, or a response with
\* a status and a body
Transport(e) == [sent |-> FALSE, error |-> e, status |-> 0, body |-> ""]
Response(status, body) == [sent |-> TRUE, error |-> "", status |-> status, body |-> body]

Outcomes ==
    { Transport("connect"), Transport("timeout"),
      Response(200, "{\"x\":1}"), Response(200, "2"),
      Response(200, "oops"), Response(204, ""), Response(200, Unreadable),
      Response(404, "not found"), Response(500, ""), Response(500, Unreadable) }

\* StatusCode::is_success
is_success(status) == status >= 200 /\ status < 300

\* StatusCode's Display
StatusText(status) ==
    CASE status = 200 -> "200 OK"
      [] status = 204 -> "204 No Content"
      [] status = 404 -> "404 Not Found"
      [] status = 500 -> "500 Internal Server Error"

\* The bodies that are JSON, and the Value each one is
JsonBodies == [b \in {"{\"x\":1}", "2"} |-> IF b = "2" THEN VNum(2) ELSE VObj(1)]

NoJson == VNum(0)

\* The results of fetch_json
OkJson(json) == [tag |-> "Ok", json |-> json, error |-> "", reason |-> ""]
\* AppError::Http(e), e a reqwest::Error
Http(e) == [tag |-> "Http", json |-> NoJson, error |-> e, reason |-> ""]
\* AppError::OperationFailed { reason }
OperationFailed(reason) ==
    [tag |-> "OperationFailed", json |-> NoJson, error |-> "", reason |-> reason]
\* unreachable!()
Panic == [tag |-> "Panic", json |-> NoJson, error |-> "", reason |-> ""]
NoResult == [tag |-> "None", json |-> NoJson, error |-> "", reason |-> ""]

\* response.json().await: the Value, or reqwest's error (reading the body failed,
\* or the body is no JSON)
json(response) ==
    IF response.body = Unreadable THEN Http("body")
    ELSE IF response.body \in DOMAIN JsonBodies THEN OkJson(JsonBodies[response.body])
    ELSE Http("decode")

\* response.text().await.unwrap_or_default()
text_or_default(response) == IF response.body = Unreadable THEN "" ELSE response.body

\* format!("HTTP {}: {}", status, error_text)
Reason(response) ==
    "HTTP " \o StatusText(response.status) \o ": " \o text_or_default(response)

\* The last attempt taken to be the one before it
IsFinal_one_early(n) == n >= retry_attempts - 1

\* Whether this attempt is the last one the loop makes
IsFinal(n) == n = retry_attempts

\* The turn with a final transport failure wrapped as OperationFailed
Turn_wraps_transport(out, n) ==
    IF out.sent
    THEN IF is_success(out.status) THEN json(out)
         ELSE IF IsFinal(n) THEN OperationFailed(Reason(out)) ELSE NoResult
    ELSE IF IsFinal(n) THEN OperationFailed(out.error) ELSE NoResult

\* The turn that surfaces the failure of the first attempt in place of the final one
Turn_reports_first(out, n) ==
    LET first == IF trace = <<>> THEN out ELSE trace[1].out IN
    IF out.sent
    THEN IF is_success(out.status) THEN json(out)
         ELSE IF IsFinal(n)
              THEN (IF first.sent THEN OperationFailed(Reason(first)) ELSE Http(first.error))
              ELSE NoResult
    ELSE IF IsFinal(n)
         THEN (IF first.sent THEN OperationFailed(Reason(first)) ELSE Http(first.error))
         ELSE NoResult

\* One turn of fetch_json's loop on what send() came to: the result it returns, or
\* NoResult when it goes on to sleep
Turn(out, n) ==
    IF out.sent
    THEN IF is_success(out.status) THEN json(out)
         ELSE IF IsFinal(n) THEN OperationFailed(Reason(out)) ELSE NoResult
    ELSE IF IsFinal(n) THEN Http(out.error) ELSE NoResult

\* Duration::from_millis(1000 * attempt as u64), in ms
Backoff(n) == 1000 * n

GetEvent(n, out) == [type |-> "GET", attempt |-> n, url |-> full_url, ms |-> 0, out |-> out]
SleepEvent(n, ms) ==
    [type |-> "sleep", attempt |-> n, url |-> <<>>, ms |-> ms, out |-> Transport("")]

\* fetch_json, up to the loop
FetchJson(url) ==
    /\ pc = "idle"
    /\ full_url' = FullUrl(base_url, url)
    /\ attempt' = 1
    /\ pc' = "loop"
    /\ UNCHANGED <<base_url, retry_attempts, trace, result>>
    /\ UNCHANGED svars

\* One attempt: the request, and the match on what it came to
Send(out) ==
    /\ pc = "loop"
    /\ attempt <= retry_attempts
    /\ trace' = Append(trace, GetEvent(attempt, out))
    /\ result' = Turn(out, attempt)
    /\ pc' = IF Turn(out, attempt) = NoResult THEN "sleep" ELSE "done"
    /\ UNCHANGED <<base_url, retry_attempts, full_url, attempt>>
    /\ UNCHANGED svars

\* The sleep at the end of the loop's body, and the step to the next attempt
Sleep ==
    /\ pc = "sleep"
    /\ trace' = Append(trace, SleepEvent(attempt, Backoff(attempt)))
    /\ attempt' = attempt + 1
    /\ pc' = "loop"
    /\ UNCHANGED <<base_url, retry_attempts, full_url, result>>
    /\ UNCHANGED svars

\* The loop has run out of attempts: unreachable!()
Unreachable ==
    /\ pc = "loop"
    /\ attempt > retry_attempts
    /\ result' = Panic
    /\ pc' = "done"
    /\ UNCHANGED <<base_url, retry_attempts, full_url, attempt, trace>>
    /\ UNCHANGED svars

\* post_json's full_url with base_url and url joined as they are
PostFullUrl_plain_join(base, url) ==
    IF starts_with(url, <<"h", "t", "t", "p">>) THEN url
    ELSE base \o <<"/">> \o url

\* The full_url of post_json
PostFullUrl(base, url) ==
    IF starts_with(url, <<"h", "t", "t", "p">>) THEN url
    ELSE trim_end_matches(base, "/") \o <<"/">> \o trim_start_matches(url, "/")

PostEvent(out) == [type |-> "POST", attempt |-> 1, url |-> full_url, ms |-> 0, out |-> out]

\* post_json with a failed send wrapped as OperationFailed
Posted_wraps_transport(out) ==
    IF ~out.sent THEN OperationFailed(out.error)
    ELSE IF is_success(out.status) THEN json(out)
    ELSE OperationFailed(Reason(out))

\* What post_json returns on what send() came to
Posted(out) ==
    IF ~out.sent THEN Http(out.error)
    ELSE IF is_success(out.status) THEN json(out)
    ELSE OperationFailed(Reason(out))

\* post_json, up to the request
PostJson(url) ==
    /\ pc = "idle"
    /\ full_url' = PostFullUrl(base_url, url)
    /\ pc' = "post"
    /\ UNCHANGED <<base_url, retry_attempts, attempt, trace, result>>
    /\ UNCHANGED svars

\* post_json's request, and what it returns
PostSend(out) ==
    /\ pc = "post"
    /\ trace' = Append(trace, PostEvent(out))
    /\ result' = Posted(out)
    /\ pc' = "done"
    /\ UNCHANGED <<base_url, retry_attempts, full_url, attempt>>
    /\ UNCHANGED svars

----------------------------------------------------------------------------
(* The Storage calls as actions *)

\* The calls that may run side by side, none of them begun
Procs == {1, 2}
NoItem == [id |-> 0, key |-> <<>>, value |-> VNum(0), created_at |-> 0,
           updated_at |-> 0, metadata |-> <<>>]
NoProcs == [p \in Procs |->
              [pc |-> "idle", key |-> <<>>, saw |-> FALSE, item |-> NoItem,
               ret |-> Err("None"), wrote |-> 0]]

NoHist == [n |-> 0, id |-> 0, created_at |-> 0, updated_at |-> 0, prev |-> 0]

\* The history of a key after a store that returned item
Stored(h, item) ==
    IF h.n = 0
    THEN [n |-> 1, id |-> item.id, created_at |-> item.created_at,
          updated_at |-> item.updated_at, prev |-> item.updated_at]
    ELSE [h EXCEPT !.n = 2, !.prev = h.updated_at, !.updated_at = item.updated_at]

Call(op, key, value, now, ret) ==
    [op |-> op, key |-> key, value |-> value, now |-> now, ret |-> ret]

InitStorage ==
    /\ files = <<>>
    /\ max_file_size_mb \in Megabytes
    /\ overflow_checks = FALSE
    /\ procs = NoProcs
    /\ uuids = 0
    /\ last = Call("new", <<>>, VNum(0), 0, Ok(<<>>))
    /\ nops = 0
    /\ hist = [k \in Keys |-> NoHist]
    /\ fhist = [k \in Keys |-> NoHist]

Store(key, value, now) ==
    LET out == store(key, value, now, uuids + 1) IN
    /\ nops < MaxOps
    /\ nops' = nops + 1
    /\ files' = out.files
    /\ uuids' = IF get_file_path(key) \in DOMAIN files THEN uuids ELSE uuids + 1
    /\ last' = Call("store", key, value, now, out.ret)
    /\ hist' = IF out.ret.tag = "Ok"
               THEN [hist EXCEPT ![key] = Stored(hist[key], out.ret.val)]
               ELSE hist
    /\ fhist' = IF out.ret.tag = "Ok"
                THEN [fhist EXCEPT ![key] = Stored(fhist[key], out.ret.val)]
                ELSE fhist
    /\ UNCHANGED <<max_file_size_mb, overflow_checks, procs>>
    /\ UNCHANGED hvars

Delete(key) ==
    LET out == delete(key) IN
    /\ nops < MaxOps
    /\ nops' = nops + 1
    /\ files' = out.files
    /\ last' = Call("delete", key, VNum(0), 0, out.ret)
    /\ hist' = IF out.ret.tag = "Ok" THEN [hist EXCEPT ![key] = NoHist] ELSE hist
    /\ fhist' = IF out.ret.tag = "Ok"
                THEN [k \in Keys |->
                        IF get_file_path(k) = get_file_path(key) THEN NoHist ELSE fhist[k]]
                ELSE fhist
    /\ UNCHANGED <<max_file_size_mb, overflow_checks, procs, uuids>>
    /\ UNCHANGED hvars

Get(key) ==
    /\ nops < MaxOps
    /\ nops' = nops + 1
    /\ last' = Call("get", key, VNum(0), 0, get(key))
    /\ UNCHANGED <<files, max_file_size_mb, overflow_checks, procs, uuids, hist, fhist>>
    /\ UNCHANGED hvars

Exists(key) ==
    /\ nops < MaxOps
    /\ nops' = nops + 1
    /\ last' = Call("exists", key, VNum(0), 0, Ok(<<exists(key)>>))
    /\ UNCHANGED <<files, max_file_size_mb, overflow_checks, procs, uuids, hist, fhist>>
    /\ UNCHANGED hvars

List ==
    /\ nops < MaxOps
    /\ nops' = nops + 1
    /\ \E entries \in ReadDir : last' = Call("list", <<>>, VNum(0), 0, list(entries))
    /\ UNCHANGED <<files, max_file_size_mb, overflow_checks, procs, uuids, hist, fhist>>
    /\ UNCHANGED hvars

GetStorageInfo ==
    /\ nops < MaxOps
    /\ nops' = nops + 1
    /\ \E entries \in ReadDir :
          last' = Call("get_storage_info", <<>>, VNum(0), 0, Ok(get_storage_info(entries)))
    /\ UNCHANGED <<files, max_file_size_mb, overflow_checks, procs, uuids, hist, fhist>>
    /\ UNCHANGED hvars

\* get_storage_info when fs::metadata fails on the files of unreadable
GetStorageInfoFailing(unreadable) ==
    /\ nops < MaxOps
    /\ nops' = nops + 1
    /\ unreadable # {}
    /\ \E entries \in ReadDir :
          last' = Call("get_storage_info", <<>>, VNum(0), 0,
                       Ok(get_storage_info_failing(entries, unreadable)))
    /\ UNCHANGED <<files, max_file_size_mb, overflow_checks, procs, uuids, hist, fhist>>
    /\ UNCHANGED hvars

\* The list command
HandleList(detailed, unreadable) ==
    /\ nops < MaxOps
    /\ nops' = nops + 1
    /\ \E entries \in ReadDir :
          last' = Call("handle_list", <<>>, VNum(0), 0,
                       handle_list(detailed, entries, unreadable))
    /\ UNCHANGED <<files, max_file_size_mb, overflow_checks, procs, uuids, hist, fhist>>
    /\ UNCHANGED hvars

\* Outside the program: a record file is left cut short
Truncate(path) ==
    /\ nops < MaxOps
    /\ nops' = nops + 1
    /\ path \in DOMAIN files
    /\ files' = [files EXCEPT ![path] = Truncated]
    /\ last' = Call("truncate", <<>>, VNum(0), 0, Ok(<<>>))
    /\ UNCHANGED <<max_file_size_mb, overflow_checks, procs, uuids, hist, fhist>>
    /\ UNCHANGED hvars

\* fs::write that leaves a file that is already there as it is
write_if_absent(path, contents) ==
    [f \in DOMAIN files \cup {path} |->
        IF f = path /\ path \notin DOMAIN files THEN contents ELSE files[f]]

\* fs::write: the file is created or replaced
write(path, contents) ==
    [f \in DOMAIN files \cup {path} |-> IF f = path THEN contents ELSE files[f]]

\* The number of writes the store calls running side by side have made
Writes == Cardinality({ p \in Procs : procs[p].wrote > 0 })

\* store by caller p, up to its first look at the disk: file_path.exists(), and the
\* new item when there is no file.  A value waiting for the record read from the
\* file is kept in item.value.
RaceTest(p, key, value, now) ==
    LET existed == get_file_path(key) \in DOMAIN files IN
    /\ procs[p].pc = "idle"
    /\ procs' = [procs EXCEPT ![p] =
                   [pc |-> IF existed THEN "read" ELSE "write",
                    key |-> key,
                    saw |-> existed,
                    item |-> IF existed THEN [NoItem EXCEPT !.value = value]
                             ELSE StoredItem_new(key, value, now, uuids + 1),
                    ret |-> Err("None"),
                    wrote |-> 0]]
    /\ uuids' = IF existed THEN uuids ELSE uuids + 1
    /\ UNCHANGED <<files, max_file_size_mb, overflow_checks, last, nops, hist, fhist>>
    /\ UNCHANGED hvars

\* store by caller p: self.get(&key).await? and update_value
RaceRead(p, now) ==
    LET existing == get(procs[p].key) IN
    /\ procs[p].pc = "read"
    /\ procs' = [procs EXCEPT ![p] =
                   IF existing.tag = "Ok"
                   THEN [procs[p] EXCEPT
                           !.pc = "write",
                           !.item = update_value(existing.val, procs[p].item.value, now)]
                   ELSE [procs[p] EXCEPT !.pc = "done", !.ret = existing]]
    /\ UNCHANGED <<files, max_file_size_mb, overflow_checks, uuids, last, nops, hist, fhist>>
    /\ UNCHANGED hvars

\* store by caller p: the serialization, the size check and fs::write
RaceWrite(p) ==
    LET json_data == to_string_pretty(procs[p].item) IN
    /\ procs[p].pc = "write"
    /\ IF TooLong(json_data)
       THEN /\ procs' = [procs EXCEPT ![p] =
                           [procs[p] EXCEPT !.pc = "done", !.ret = Refused]]
            /\ UNCHANGED files
       ELSE /\ files' = write(get_file_path(procs[p].key), json_data)
            /\ procs' = [procs EXCEPT ![p] =
                           [procs[p] EXCEPT !.pc = "done", !.ret = Ok(procs[p].item),
                                            !.wrote = Writes + 1]]
    /\ UNCHANGED <<max_file_size_mb, overflow_checks, uuids, last, nops, hist, fhist>>
    /\ UNCHANGED hvars

\* One store before the callers begin, for a directory that is not empty
Seed(key, value, now) ==
    /\ nops = 0
    /\ procs = NoProcs
    /\ Store(key, value, now)

\* Two callers, threads or processes, store side by side in one data directory
NextRace ==
    \/ \E key \in Keys, value \in Values, now \in Times : Seed(key, value, now)
    \/ \E p \in Procs, key \in Keys, value \in Values, now \in Times :
          RaceTest(p, key, value, now)
    \/ \E p \in Procs, now \in Times : RaceRead(p, now)
    \/ \E p \in Procs : RaceWrite(p)

\* The names a record file of the callers' keys may have
RecordFiles == { get_file_path(k) : k \in Keys }

\* The Storage calls and the list command on a directory where files get damaged
\* and fs::metadata may fail
NextFaults ==
    \/ \E key \in Keys, value \in Values, now \in Times : Store(key, value, now)
    \/ \E key \in Keys : Delete(key)
    \/ \E key \in Keys : Get(key)
    \/ \E path \in RecordFiles : Truncate(path)
    \/ \E unreadable \in SUBSET DOMAIN files : GetStorageInfoFailing(unreadable)
    \/ \E detailed \in BOOLEAN, unreadable \in SUBSET DOMAIN files :
          HandleList(detailed, unreadable)

NextStorage ==
    \/ \E key \in Keys, value \in Values, now \in Times : Store(key, value, now)
    \/ \E key \in Keys : Delete(key)
    \/ \E key \in Keys : Get(key)
    \/ \E key \in Keys : Exists(key)
    \/ List
    \/ GetStorageInfo


----------------------------------------------------------------------------
(* Specifications *)

\* HttpClient::new with the default configuration (config.rs:35-37), no fetch made
HttpIdle ==
    /\ base_url = <<"h", "t", "t", "p", ":", "/", "/", "h">>
    /\ retry_attempts = 3
    /\ pc = "idle"
    /\ full_url = <<>>
    /\ attempt = 0
    /\ trace = <<>>
    /\ result = NoResult

InitFetch ==
    /\ base_url \in BaseUrls
    /\ retry_attempts \in 0..MaxRetry
    /\ pc = "idle"
    /\ full_url = <<>>
    /\ attempt = 0
    /\ trace = <<>>
    /\ result = NoResult

\* Storage::new on an empty directory, no call made
StorageIdle ==
    /\ files = <<>>
    /\ max_file_size_mb = U64(0, 100)
    /\ overflow_checks = FALSE
    /\ procs = NoProcs
    /\ uuids = 0
    /\ last = Call("new", <<>>, VNum(0), 0, Ok(<<>>))
    /\ nops = 0
    /\ hist = [k \in Keys |-> NoHist]
    /\ fhist = [k \in Keys |-> NoHist]

\* The Storage calls of one process after another on one data directory
Init == InitStorage /\ HttpIdle
Next == NextStorage
Spec == Init /\ [][Next]_vars

\* The Storage calls under every kind of limit, in the debug and the release build
InitLimit ==
    /\ files = <<>>
    /\ max_file_size_mb \in Megabytes \cup LargeMegabytes
    /\ overflow_checks \in BOOLEAN
    /\ procs = NoProcs
    /\ uuids = 0
    /\ last = Call("new", <<>>, VNum(0), 0, Ok(<<>>))
    /\ nops = 0
    /\ hist = [k \in Keys |-> NoHist]
    /\ fhist = [k \in Keys |-> NoHist]

NextLimit ==
    \/ \E key \in Keys, value \in LimitValues, now \in Times : Store(key, value, now)
    \/ \E key \in Keys : Delete(key)

LimitInit == InitLimit /\ HttpIdle
SpecLimit == LimitInit /\ [][NextLimit]_vars

SpecRace == Init /\ [][NextRace]_vars

\* The same on a directory where things go wrong
SpecFaults == Init /\ [][NextFaults]_vars

\* One call of fetch_json
NextFetch ==
    \/ \E url \in Urls : FetchJson(url)
    \/ \E out \in Outcomes : Send(out)
    \/ Sleep
    \/ Unreachable

FetchInit == InitFetch /\ StorageIdle
SpecFetch == FetchInit /\ [][NextFetch]_vars

\* One call of fetch_json, run to its end whenever it can take a step
SpecFetchLive == FetchInit /\ [][NextFetch]_vars /\ WF_vars(NextFetch)

\* One call of post_json
NextPost ==
    \/ \E url \in Urls : PostJson(url)
    \/ \E out \in Outcomes : PostSend(out)

\* One call of the client: fetch_json or post_json
NextHttp == NextFetch \/ NextPost
SpecHttp == FetchInit /\ [][NextHttp]_vars

----------------------------------------------------------------------------
(* Claims about Storage, checked under Spec *)

\* The call just made (last') is op on key k
Made(op, k) == nops' = nops + 1 /\ last'.op = op /\ last'.key = k

\* C1: a successful store(k, v) immediately followed by get(k) makes get return a
\* record whose value is v, in every state store and delete calls lead to.
C1_StoreThenGet ==
    [][\A k \in Keys :
         (last.op = "store" /\ last.key = k /\ last.ret.tag = "Ok" /\ Made("get", k))
         => (last'.ret.tag = "Ok" /\ last'.ret.val.value = last.value)]_vars

\* A get of "b" right after the store of the one-MiB string under "b"
C1_Witness ==
    /\ nops = 2
    /\ last.op = "get" /\ last.key = <<"b">>
    /\ last.ret.tag = "Ok" /\ last.ret.val.value = VStr(MiB)

\* C2, as claimed: over the successful stores of a key k with no delete(k) in
\* between, every returned and stored record has the id and created_at of the first
\* of them, updated_at never decreases from one store to the next, and the value is
\* the one given to the latest store.
C2_StableAcrossStores ==
    (last.op = "store" /\ last.ret.tag = "Ok") =>
        LET h == hist[last.key]
            r == last.ret.val
        IN  /\ r.id = h.id
            /\ r.created_at = h.created_at
            /\ h.prev <= r.updated_at
            /\ r.value = last.value
            /\ get(last.key) = Ok(r)

\* C2, amended: over the successful stores of a key k with no successful delete of k
\* or of a key with the same file name in between, every returned and stored record
\* has the id and created_at the first of them returned, the value is the one given
\* to the latest store, and updated_at is what the clock read at the latest store.
C2_StableWhileFileKept ==
    (last.op = "store" /\ last.ret.tag = "Ok") =>
        LET h == fhist[last.key]
            r == last.ret.val
        IN  /\ r.id = h.id
            /\ r.created_at = h.created_at
            /\ r.updated_at = last.now
            /\ r.value = last.value
            /\ get(last.key) = Ok(r)

\* A third call that is the second store in a row under "a/", at an earlier clock
\* reading than the first, with another value
C2_Witness ==
    /\ last.op = "store" /\ last.key = <<"a", "/">> /\ last.ret.tag = "Ok"
    /\ fhist[last.key].n = 2
    /\ last.ret.val.created_at = 1 /\ last.ret.val.updated_at = 0
    /\ last.ret.val.value = VStr(MiB)

\* C3: delete(k) of a key with no record fails with NotFound and changes nothing;
\* after a successful store(k, _) followed by a successful delete(k), get(k) fails
\* with NotFound and exists(k) is false.
C3_Delete ==
    [][\A k \in Keys :
         Made("delete", k) =>
           /\ ~exists(k) => (last'.ret.tag = "NotFound" /\ files' = files)
           /\ (last.op = "store" /\ last.key = k /\ last.ret.tag = "Ok"
                 /\ last'.ret.tag = "Ok")
              => (get(k)'.tag = "NotFound" /\ ~exists(k)')]_vars

\* The delete of "a/" right after its store has succeeded
C3_Witness ==
    /\ nops = 2
    /\ last.op = "delete" /\ last.key = <<"a", "/">> /\ last.ret.tag = "Ok"
    /\ ~exists(<<"a", "/">>)

\* The sanitized keys that have a record now
StoredKeys == { Sanitize(k) : k \in { x \in Keys : exists(x) } }

\* q is in ascending order without duplicates
Ascending(q) == \A i \in 1..(Len(q) - 1) : StrLess(q[i], q[i + 1])

\* C4: after any store and delete calls on a fresh store, list() returns a sequence
\* in ascending lexicographic order, without duplicates, whose elements are exactly
\* the sanitized keys that have a record.
C4_ListIsStoredKeys ==
    (last.op = "list") =>
        LET q == last.ret.val IN
        /\ last.ret.tag = "Ok"
        /\ Ascending(q)
        /\ { q[i] : i \in DOMAIN q } = StoredKeys

\* C4 holds of every key but the empty one: list() is in ascending order, without
\* duplicates, and holds exactly the non-empty sanitized keys that have a record.
C4_ExceptEmptyKey ==
    (last.op = "list") =>
        LET q == last.ret.val IN
        /\ Ascending(q)
        /\ { q[i] : i \in DOMAIN q } = StoredKeys \ { <<>> }

\* The record store(k, v) would serialize at clock reading t
WouldWrite(k, v, t) ==
    IF exists(k) THEN update_value(get(k).val, v, t)
    ELSE StoredItem_new(k, v, t, uuids + 1)

\* len bytes are more than max_file_size_mb * 1048576
OverConfigured(len) == max_file_size_mb.hi = 0 /\ len > max_file_size_mb.lo * MiB

\* C5: when the pretty-serialized record that store(k, v) would write is longer than
\* the configured limit, store fails with Validation and the store is unchanged: a
\* record k had keeps its value and updated_at, and none appears if k had none.
C5_TooLargeChangesNothing ==
    [][\A k \in Keys :
         (/\ Made("store", k)
          /\ OverConfigured(ByteLen(to_string_pretty(WouldWrite(k, last'.value, last'.now)))))
         => /\ last'.ret.tag = "Validation"
            /\ files' = files
            /\ get(k)' = get(k)
            /\ exists(k)' = exists(k)]_vars

\* The store of the one-MiB string under "b" was refused and "b" keeps {"x":1}
C5_Witness ==
    /\ last.op = "store" /\ last.key = <<"b">> /\ last.value = VStr(MiB)
    /\ last.ret.tag = "Validation"
    /\ get(<<"b">>).tag = "Ok" /\ get(<<"b">>).val.value = VObj(1)

\* The name of the record file of a sanitized key
RecordFile(stem) == stem \o <<".", "j", "s", "o", "n">>

\* C12: in every reachable state and for every key k, exists(k) is true if and only
\* if a record file is mapped for k, and get(k) fails with NotFound if and only if
\* exists(k) is false.
C12_ExistsIffMapped ==
    /\ \A k \in Keys :
          /\ exists(k) <=> RecordFile(Sanitize(k)) \in DOMAIN files
          /\ get(k) = Err("NotFound") <=> ~exists(k)
    /\ last.op = "exists" => last.ret = Ok(<<RecordFile(Sanitize(last.key)) \in DOMAIN files>>)
    /\ last.op = "get" => (last.ret = Err("NotFound") <=> ~exists(last.key))

\* get("a_") has returned the record stored under "a/"
C12_Witness ==
    /\ last.op = "get" /\ last.key = <<"a", "_">>
    /\ last.ret.tag = "Ok" /\ last.ret.val.key = <<"a", "/">>

\* get_storage_info calls fs::metadata on one of the files of unreadable
MetadataFails(unreadable) ==
    \E path \in unreadable :
        HasExtension(path) /\ Extension(path) = <<"j", "s", "o", "n">>

\* C13: no failure of a Storage operation is swallowed: whenever a file-system or
\* deserialization step inside store, get, list, delete or get_storage_info fails,
\* the operation returns an error to its caller instead of a success result, and
\* the process ends with a failure status.
C13_NoFailureSwallowed ==
    [][/\ \A k \in Keys :
             (Get(k) /\ exists(k) /\ from_str(files[get_file_path(k)]) = ParseError)
                => (last'.ret.tag # "Ok" /\ ExitStatus(last'.ret) # 0)
       /\ \A k \in Keys, v \in Values, t \in Times :
             (Store(k, v, t) /\ exists(k) /\ from_str(files[get_file_path(k)]) = ParseError)
                => (last'.ret.tag # "Ok" /\ ExitStatus(last'.ret) # 0)
       /\ \A unreadable \in SUBSET DOMAIN files :
             (GetStorageInfoFailing(unreadable) /\ MetadataFails(unreadable))
                => last'.ret.tag # "Ok"
       /\ \A unreadable \in SUBSET DOMAIN files :
             (/\ HandleList(TRUE, unreadable)
              /\ \/ MetadataFails(unreadable)
                 \/ \E k \in Keys : exists(k) /\ get(k).tag # "Ok")
                => ExitStatus(last'.ret) # 0
      ]_vars

\* C13 holds of get and store: a record file that does not parse makes them fail
C13_GetAndStoreSurface ==
    [][/\ \A k \in Keys :
             (Get(k) /\ exists(k) /\ from_str(files[get_file_path(k)]) = ParseError)
                => (last'.ret = Err("Json") /\ ExitStatus(last'.ret) = 1)
       /\ \A k \in Keys, v \in Values, t \in Times :
             (Store(k, v, t) /\ exists(k) /\ from_str(files[get_file_path(k)]) = ParseError)
                => (last'.ret = Err("Json") /\ files' = files)
      ]_vars

\* p and q have both returned Ok from store calls that found no file under the same
\* file name, and p wrote before q
BothCreated(p, q) ==
    /\ procs[p].pc = "done" /\ procs[p].ret.tag = "Ok" /\ ~procs[p].saw
    /\ procs[q].pc = "done" /\ procs[q].ret.tag = "Ok" /\ ~procs[q].saw
    /\ get_file_path(procs[p].key) = get_file_path(procs[q].key)
    /\ procs[p].wrote < procs[q].wrote

\* C14: store calls on the same key are not atomic: when two of them both test for
\* the file before either writes, both return success, the record on disk is the
\* one of the caller that wrote last, and the record returned to the other caller,
\* with its freshly generated id, is not on disk.
C14_LostUpdate ==
    \A p, q \in Procs :
       BothCreated(p, q) =>
          /\ get(procs[q].key) = procs[q].ret
          /\ get(procs[p].key) = procs[q].ret
          /\ procs[p].ret.val.id # procs[q].ret.val.id
          /\ get(procs[p].key) # procs[p].ret

\* Two stores of "b" with the same value, started on an empty directory, have both
\* returned Ok; caller 1 wrote first and its record is not the one on disk
C14_Witness ==
    /\ BothCreated(1, 2)
    /\ procs[1].key = <<"b">> /\ procs[2].key = <<"b">>
    /\ procs[1].ret.val.value = procs[2].ret.val.value
    /\ get(<<"b">>) = procs[2].ret /\ get(<<"b">>) # procs[1].ret

\* C15: when k2 sanitizes to the file of a record stored under k1, store(k2, v2)
\* leaves a single record that keeps k1's id, key field and created_at and holds
\* v2; get(k1) and get(k2) both return it; and delete(k2) removes it for k1 as well.
C15_CollidingKeys ==
    [][\A k2 \in Keys :
          /\ \A v2 \in Values, t \in Times :
                (Store(k2, v2, t) /\ exists(k2) /\ last'.ret.tag = "Ok") =>
                    LET r == get(k2).val IN
                    /\ last'.ret.val.id = r.id
                    /\ last'.ret.val.key = r.key
                    /\ last'.ret.val.created_at = r.created_at
                    /\ last'.ret.val.value = v2
                    /\ DOMAIN files' = DOMAIN files
                    /\ \A k1 \in Keys :
                          Sanitize(k1) = Sanitize(k2) => get(k1)' = last'.ret
          /\ (Delete(k2) /\ last'.ret.tag = "Ok") =>
                \A k1 \in Keys :
                   Sanitize(k1) = Sanitize(k2) => (get(k1)' = Err("NotFound") /\ ~exists(k1)')
      ]_vars

\* store("a_") has updated the record that store("a/") made: it still has the key
\* "a/", and get("a/") returns it with the value given to store("a_")
C15_Witness ==
    /\ last.op = "store" /\ last.key = <<"a", "_">> /\ last.ret.tag = "Ok"
    /\ last.ret.val.key = <<"a", "/">>
    /\ hist[<<"a", "/">>].n = 1 /\ hist[<<"a", "/">>].id = last.ret.val.id
    /\ get(<<"a", "/">>) = last.ret /\ last.ret.val.value = last.value

\* C16: store compares the serialized length with max_file_size_mb * 1024 * 1024 by
\* a strict greater-than: a record no longer than that is written and returned, a
\* longer one fails with Validation, and the byte limit is max_file_size_mb *
\* 1048576 for every u64 max_file_size_mb, 0 and those whose product passes 2^64
\* included.
C16_LimitIsMegabytes ==
    [][\A k \in Keys, v \in LimitValues, t \in Times :
          Store(k, v, t) =>
             LET item == WouldWrite(k, v, t)
                 json_data == to_string_pretty(item)
             IN  IF OverConfigured(ByteLen(json_data))
                 THEN last'.ret = Err("Validation") /\ files' = files
                 ELSE /\ last'.ret = Ok(item)
                      /\ get_file_path(k) \in DOMAIN files'
                      /\ files'[get_file_path(k)] = json_data
      ]_vars

\* C16 holds of every max_file_size_mb below 2^44
C16_BelowOverflow ==
    [][\A k \in Keys, v \in LimitValues, t \in Times :
          (Store(k, v, t) /\ max_file_size_mb.hi = 0) =>
             LET item == WouldWrite(k, v, t)
                 json_data == to_string_pretty(item)
             IN  IF OverConfigured(ByteLen(json_data))
                 THEN last'.ret = Err("Validation") /\ files' = files
                 ELSE /\ last'.ret = Ok(item)
                      /\ get_file_path(k) \in DOMAIN files'
                      /\ files'[get_file_path(k)] = json_data
      ]_vars

\* Under a limit of 1 MB the record of "b" that is one MiB long has been written
C16_EdgeWritten ==
    /\ max_file_size_mb = U64(0, 1)
    /\ last.op = "store" /\ last.key = <<"b">> /\ last.ret.tag = "Ok"
    /\ ByteLen(files[<<"b", ".", "j", "s", "o", "n">>]) = MiB

\* And the record of "a/", one byte longer, has been refused
C16_EdgeRefused ==
    /\ max_file_size_mb = U64(0, 1)
    /\ last.op = "store" /\ last.key = <<"a", "/">> /\ last.ret = Err("Validation")
    /\ ByteLen(to_string_pretty(StoredItem_new(<<"a", "/">>, last.value, 0, 1))) = MiB + 1

\* C20: in every state reached by store and delete calls, each record file holds a
\* record whose key field sanitizes to the file's name without ".json"; so no two
\* record files hold records with the same key field.
C20_FileHoldsItsKey ==
    /\ \A f \in DOMAIN files :
          /\ from_str(files[f]) # ParseError
          /\ f = RecordFile(Sanitize(from_str(files[f]).key))
    /\ \A f, g \in DOMAIN files :
          f # g => from_str(files[f]).key # from_str(files[g]).key

\* Two record files, one of them a_.json holding the record of "a/"
C20_Witness ==
    /\ Cardinality(DOMAIN files) = 2
    /\ <<"a", "_", ".", "j", "s", "o", "n">> \in DOMAIN files
    /\ from_str(files[<<"a", "_", ".", "j", "s", "o", "n">>]).key = <<"a", "/">>

\* C21: in every state reached by store and delete calls under a fixed limit, every
\* record file is no longer than max_file_size_mb * 1024 * 1024 bytes, so
\* get_storage_info's total_size_bytes is at most file_count times that limit.
C21_FilesWithinLimit ==
    /\ \A f \in DOMAIN files : ~OverConfigured(ByteLen(files[f]))
    /\ \A entries \in ReadDir :
          LET info == get_storage_info(entries) IN
          IF max_file_size_mb.hi = 0
          THEN info.total_size_bytes <= info.file_count * max_file_size_mb.lo * MiB
          ELSE info.file_count = 0 => info.total_size_bytes = 0

\* Under a limit of 1 MB: two record files, that of "b" one MiB long to the byte
C21_Witness ==
    /\ max_file_size_mb = U64(0, 1)
    /\ Cardinality(DOMAIN files) = 2
    /\ <<"b", ".", "j", "s", "o", "n">> \in DOMAIN files
    /\ ByteLen(files[<<"b", ".", "j", "s", "o", "n">>]) = MiB
    /\ \A entries \in ReadDir : get_storage_info(entries).file_count >= 1

\* The elements of a sequence
Range(q) == { q[i] : i \in DOMAIN q }

\* C22: sanitization is idempotent, so listed keys round-trip: for every string s
\* that list() returns, exists(s) is true and get(s) returns the record stored in
\* the file named after s; and for every key k with exists(k) true, the sanitized
\* form of k is an element of list().
C22_ListedKeysRoundTrip ==
    /\ \A k \in Keys : Sanitize(Sanitize(k)) = Sanitize(k)
    /\ \A entries \in ReadDir :
          LET listed == Range(list(entries).val) IN
          /\ \A s \in listed :
                /\ exists(s)
                /\ RecordFile(s) \in DOMAIN files
                /\ get(s) = Ok(from_str(files[RecordFile(s)]))
          /\ \A k \in Keys : exists(k) => Sanitize(k) \in listed

\* C22 holds of every key but the empty one
C22_ExceptEmptyKey ==
    /\ \A k \in Keys : Sanitize(Sanitize(k)) = Sanitize(k)
    /\ \A entries \in ReadDir :
          LET listed == Range(list(entries).val) IN
          /\ \A s \in listed :
                /\ exists(s)
                /\ RecordFile(s) \in DOMAIN files
                /\ get(s) = Ok(from_str(files[RecordFile(s)]))
          /\ \A k \in Keys \ { <<>> } : exists(k) => Sanitize(k) \in listed

\* The record files other than that of key k are the same before and after the step
OthersKept(k) ==
    \A f \in (DOMAIN files \cup DOMAIN files') \ { RecordFile(Sanitize(k)) } :
        /\ f \in DOMAIN files /\ f \in DOMAIN files'
        /\ files'[f] = files[f]
        /\ from_str(files'[f]) = from_str(files[f])

\* C23: store(k, _) and delete(k), whether they succeed or fail, leave unchanged
\* every record whose file name differs from the sanitized form of k (its fields and
\* its presence); get, exists, list and get_storage_info leave every record
\* unchanged.
C23_OtherRecordsKept ==
    [][/\ \A k \in Keys : (Made("store", k) \/ Made("delete", k)) => OthersKept(k)
       /\ (nops' = nops + 1 /\ last'.op \in {"get", "exists", "list", "get_storage_info"})
             => files' = files
      ]_vars

\* A store under "b" was refused, the record of "a/" is on disk, and delete("b") has
\* failed with NotFound: the record of "a/" is the one its store made
C23_Witness ==
    /\ last.op = "delete" /\ last.key = <<"b">> /\ last.ret = Err("NotFound")
    /\ DOMAIN files = { <<"a", "_", ".", "j", "s", "o", "n">> }
    /\ hist[<<"a", "/">>].n = 1 /\ hist[<<"b">>].n = 0
    /\ uuids = 2
    /\ get(<<"a", "/">>).val.id = hist[<<"a", "/">>].id

----------------------------------------------------------------------------
(* Claims about fetch_json, checked under SpecFetch *)

IsGet(e) == e.type = "GET"
IsSleep(e) == e.type = "sleep"

\* The GET requests sent so far, and the sleeps taken
Gets == SelectSeq(trace, IsGet)
Sleeps == SelectSeq(trace, IsSleep)

\* An attempt fails: a transport error or a non-success status
Failed(out) == ~out.sent \/ ~is_success(out.status)

\* An attempt is answered with a 2xx JSON body
AnsweredJson(out) ==
    out.sent /\ is_success(out.status) /\ out.body \in DOMAIN JsonBodies

\* The first n attempts have all failed
AllFailed(n) == \A i \in 1..n : Failed(Gets[i].out)

\* C6: against an endpoint that fails on attempts 1..N-1 and answers attempt N with
\* a 2xx JSON body, 1 <= N <= max_attempts, fetch returns that JSON payload after
\* exactly N GET requests and issues no request after the successful one.
C6_SucceedsOnNth ==
    LET N == Len(Gets) IN
    \* while the attempts fail and some are left, fetch goes on to the next one
    /\ (pc # "idle" /\ AllFailed(N) /\ N < retry_attempts)
          => (pc \in {"loop", "sleep"} /\ ENABLED (Sleep \/ \E out \in Outcomes : Send(out)))
    \* the attempt answered with JSON is the last thing fetch does
    /\ (N >= 1 /\ AllFailed(N - 1) /\ AnsweredJson(Gets[N].out))
          => /\ N <= retry_attempts
             /\ pc = "done"
             /\ result = OkJson(JsonBodies[Gets[N].out.body])
             /\ trace[Len(trace)] = Gets[N]
             /\ \A i \in 1..N : Gets[i].attempt = i

\* fetch has returned the payload of its third attempt, after two failures
C6_Witness ==
    /\ pc = "done" /\ Len(Gets) = 3
    /\ AllFailed(2) /\ AnsweredJson(Gets[3].out)
    /\ result = OkJson(VNum(2))

\* C7, as claimed (max_attempts a positive integer): against an endpoint that fails
\* on every attempt, fetch issues exactly max_attempts GET requests and then
\* surfaces OperationFailed.
C7_AlwaysFailing ==
    (retry_attempts >= 1 /\ AllFailed(Len(Gets))) =>
        /\ Len(Gets) <= retry_attempts
        /\ pc = "done" => (Len(Gets) = retry_attempts /\ result.tag = "OperationFailed")

\* C7, amended: against an endpoint that fails on every attempt, fetch issues exactly
\* max_attempts GET requests, never more and never fewer, and then surfaces the
\* failure of the final attempt: OperationFailed if that was a non-success status,
\* the transport error itself if it was a transport failure; with max_attempts = 0
\* there is no attempt to surface and the call panics.
C7_SurfacesFinalFailure ==
    AllFailed(Len(Gets)) =>
        /\ Len(Gets) <= retry_attempts
        /\ pc = "done" =>
              /\ Len(Gets) = retry_attempts
              /\ IF retry_attempts = 0 THEN result = Panic
                 ELSE LET final == Gets[Len(Gets)].out IN
                      IF final.sent THEN result.tag = "OperationFailed"
                      ELSE result = Http(final.error)

\* Three attempts have failed, the last one by a timeout, and fetch has returned it
C7_Witness ==
    /\ pc = "done" /\ retry_attempts = 3 /\ Len(Gets) = 3 /\ AllFailed(3)
    /\ Gets[1].out.sent /\ ~Gets[3].out.sent
    /\ result = Http("timeout")

\* C8: in every fetch run, the sleep between attempt i and attempt i+1 is
\* 1000 ms * i; sleeps occur only between two attempts (none before the first
\* attempt, none after a successful attempt, none after the final failed attempt),
\* and a run of a attempts contains exactly a-1 sleeps.
C8_SleepsBetweenAttempts ==
    /\ \A p \in DOMAIN trace :
          IsSleep(trace[p]) =>
             /\ p > 1 /\ IsGet(trace[p - 1]) /\ Failed(trace[p - 1].out)
             /\ trace[p].ms = 1000 * trace[p - 1].attempt
             /\ IF p < Len(trace)
                THEN IsGet(trace[p + 1]) /\ trace[p + 1].attempt = trace[p - 1].attempt + 1
                ELSE pc = "loop" /\ attempt <= retry_attempts
    /\ \A p \in DOMAIN trace :
          (IsGet(trace[p]) /\ p < Len(trace)) => IsSleep(trace[p + 1])
    /\ pc = "done" => Len(Sleeps) = Len(Gets) - 1

\* C8 holds of every run that makes an attempt: it has one sleep fewer than attempts.
C8_FromOneAttempt ==
    (pc = "done" /\ Len(Gets) >= 1) => Len(Sleeps) = Len(Gets) - 1

\* C9: the error fetch surfaces is determined by the final attempt alone: a
\* transport failure is returned as it is, a non-success status gives
\* OperationFailed with that attempt's status code and body text, whatever the
\* earlier attempts were.
C9_FinalAttemptDecides ==
    (pc = "done" /\ Len(Gets) >= 1) =>
        LET final == Gets[Len(Gets)].out IN
        /\ ~final.sent => result = Http(final.error)
        /\ (final.sent /\ ~is_success(final.status)) =>
              result = OperationFailed("HTTP " \o StatusText(final.status) \o ": "
                                       \o (IF final.body = Unreadable THEN "" ELSE final.body))

\* fetch has returned the 404 of its third attempt; the first two failed otherwise
C9_Witness ==
    /\ pc = "done" /\ Len(Gets) = 3
    /\ ~Gets[1].out.sent /\ Gets[2].out.status = 500 /\ Gets[3].out.status = 404
    /\ result = OperationFailed("HTTP 404 Not Found: not found")

\* C10: when an attempt receives a 2xx response whose body is not valid JSON, fetch
\* fails with a parsing error (AppError::Json) at that attempt and issues no further
\* attempt, even when attempts remain.
C10_BadJsonIsParseError ==
    \A p \in DOMAIN trace :
       (/\ IsGet(trace[p]) /\ trace[p].out.sent /\ is_success(trace[p].out.status)
        /\ trace[p].out.body # Unreadable /\ trace[p].out.body \notin DOMAIN JsonBodies)
       => /\ p = Len(trace)
          /\ pc = "done"
          /\ result.tag = "Json"

----------------------------------------------------------------------------
(* Claims about post_json and the URL resolution, checked under SpecHttp *)

IsPost(e) == e.type = "POST"
Posts == SelectSeq(trace, IsPost)

\* C11: post issues exactly one POST request whatever max_attempts is (no retry, no
\* sleep): a non-success status yields OperationFailed with the status and body
\* text, a transport failure is surfaced as it is, and a 2xx response yields the
\* parsed JSON body.
C11_PostOnce ==
    /\ pc = "post" => trace = <<>>
    /\ Posts # <<>> =>
          /\ trace = Posts /\ Len(trace) = 1
          /\ pc = "done"
          /\ ~ ENABLED NextHttp
          /\ LET out == trace[1].out IN
             /\ ~out.sent => result = Http(out.error)
             /\ (out.sent /\ ~is_success(out.status)) =>
                   result = OperationFailed("HTTP " \o StatusText(out.status) \o ": "
                                            \o (IF out.body = Unreadable THEN "" ELSE out.body))
             /\ (out.sent /\ is_success(out.status) /\ out.body \in DOMAIN JsonBodies) =>
                   result = OkJson(JsonBodies[out.body])

\* With three attempts configured, post has returned the 500 of its one request
C11_Witness ==
    /\ pc = "done" /\ retry_attempts = 3 /\ Posts # <<>>
    /\ trace[1].out.status = 500
    /\ result = OperationFailed("HTTP 500 Internal Server Error: ")

\* full is url when url begins with "http"; otherwise it is base without its
\* trailing '/'s, one '/', and url without its leading '/'s, with no second '/' on
\* either side of the one that joins them
IsResolution(full, base, url) ==
    IF Len(url) >= 4 /\ url[1] = "h" /\ url[2] = "t" /\ url[3] = "t" /\ url[4] = "p"
    THEN full = url
    ELSE \E i \in 0..Len(base), j \in 0..Len(url) :
            /\ \A x \in (i + 1)..Len(base) : base[x] = "/"
            /\ i > 0 => base[i] # "/"
            /\ \A x \in 1..j : url[x] = "/"
            /\ j < Len(url) => url[j + 1] # "/"
            /\ full = SubSeq(base, 1, i) \o <<"/">> \o SubSeq(url, j + 1, Len(url))
            /\ full[i + 1] = "/"
            /\ i > 0 => full[i] # "/"
            /\ Len(full) > i + 1 => full[i + 2] # "/"

\* C17: fetch and post resolve a url the same way: a url that begins with "http" is
\* used unchanged; any other is base_url with all trailing '/' removed, one '/', and
\* url with all leading '/' removed, so that the join has no doubled separator.
C17_UrlResolution ==
    [][\A url \in Urls :
          /\ FetchJson(url) => IsResolution(full_url', base_url, url)
          /\ PostJson(url) => IsResolution(full_url', base_url, url)
          /\ FullUrl(base_url, url) = PostFullUrl(base_url, url)]_vars

\* post has resolved "//p/" against "http://h//" to "http://h/p/"
C17_Witness ==
    /\ pc = "post"
    /\ base_url = <<"h", "t", "t", "p", ":", "/", "/", "h", "/", "/">>
    /\ full_url = <<"h", "t", "t", "p", ":", "/", "/", "h", "/", "p", "/">>

----------------------------------------------------------------------------
(* Claims about the retry loop's bounds, checked under SpecFetch and SpecFetchLive *)

Returned == pc = "done" /\ result.tag \in {"Ok", "Http", "OperationFailed"}

\* C18: for every retry_attempts the configuration admits, 0 included, fetch issues
\* at least one GET request and returns a JSON value or an error; control never
\* reaches the unreachable!() after the loop.
C18_AtLeastOneAttempt ==
    /\ ~ ENABLED Unreachable
    /\ pc = "done" => (Len(Gets) >= 1 /\ Returned)

\* C18 holds of every retry_attempts but 0
C18_FromOneAttempt ==
    retry_attempts >= 1 =>
        /\ ~ ENABLED Unreachable
        /\ pc = "done" => (Len(Gets) >= 1 /\ Returned)

\* C19: every fetch call terminates: it returns a value or an error after at most
\* max_attempts requests and at most max_attempts - 1 sleeps, and the attempt
\* counter never exceeds max_attempts.
C19_Terminates ==
    /\ [](/\ Len(Gets) <= retry_attempts
          /\ pc = "done" => Len(Sleeps) <= retry_attempts - 1
          /\ trace # <<>> => attempt <= retry_attempts)
    /\ (pc = "loop") ~> Returned

\* C19 holds of every retry_attempts but 0
C19_FromOneAttempt ==
    /\ [](retry_attempts >= 1 =>
             /\ Len(Gets) <= retry_attempts
             /\ Len(Sleeps) <= retry_attempts - 1
             /\ pc # "idle" => attempt <= retry_attempts)
    /\ (retry_attempts >= 1 /\ pc = "loop") ~> Returned

=============================================================================
